---- MODULE Spec2Model ----
(***************************************************************************)
(* A model of envdir-helper (src/envdir/cli.py): the driver `main`, the    *)
(* generator `walk_entries`, the classifiers `directory` / `executable`,   *)
(* the resolvers `from_program` / `from_file` and the two renderers.       *)
(*                                                                         *)
(* Text is modelled as a sequence of one-character strings, so that        *)
(* quoting, suffix tests, sorting and newline stripping are computed on    *)
(* characters the way the Python code computes them.                       *)
(***************************************************************************)
EXTENDS Integers, Sequences, FiniteSets, TLC

VARIABLES
    export,      \* the --export/--no-export option: "None", "True" or "False"
    envdir,      \* the DIR argument, a text
    listable,    \* whether os.listdir(envdir) succeeds
    fs,          \* entry name -> what os.stat(path) answers (a mode or an error)
    env_script,  \* the renderer main selected ("unset" before the selection)
    names,       \* sorted(os.listdir(envdir)), once listed
    idx,         \* position of walk_entries' for loop in names
    pc,          \* where the run is
    stdout,      \* the scripts echoed to the primary output, in order
    stderr,      \* the warnings echoed by warn_on_skipped, in order
    yielded,     \* the (name, content) pairs walk_entries yielded, in order
    visited,     \* per finished iteration: what the environment answered
    exit,        \* the process exit status: <<>> until the run ends, then <<status>>
    v,           \* renderer check: the text handed to the renderers
    token,       \* renderer check: shlex.quote(v)
    script,      \* renderer check: the rendered script
    qpc          \* renderer check: position

vars == <<export, envdir, listable, fs, env_script, names, idx, pc, stdout,
          stderr, yielded, visited, exit, v, token, script, qpc>>

driverVars == <<export, envdir, listable, fs, env_script, names, idx, pc,
                stdout, stderr, yielded, visited, exit>>

quoteVars == <<v, token, script, qpc>>

-----------------------------------------------------------------------------
(* Bounds of the model.                                                    *)

\* The largest number of entries in the target directory.
MaxEntries == 2

\* The longest text handed to the renderers in the renderer check.
MaxLen == 3

-----------------------------------------------------------------------------
(* Text.                                                                   *)

NL == "\n"
SQ == "'"
DQ == "\""
BS == "\\"

Letters ==
    {"a","b","c","d","e","f","g","h","i","j","k","l","m","n","o","p","q","r",
     "s","t","u","v","w","x","y","z",
     "A","B","C","D","E","F","G","H","I","J","K","L","M","N","O","P","Q","R",
     "S","T","U","V","W","X","Y","Z"}

Digits == {"0","1","2","3","4","5","6","7","8","9"}

\* Code points of the characters entry names are made of in this model.
Ord(c) ==
    CASE c = "A" -> 65
      [] c = "B" -> 66
      [] c = "c" -> 99
      [] c = "r" -> 114

\* Python's str comparison: lexicographic by code point, a proper prefix first.
RECURSIVE StrLess(_, _)
StrLess(a, b) ==
    IF b = <<>> THEN FALSE
    ELSE IF a = <<>> THEN TRUE
    ELSE IF Ord(Head(a)) # Ord(Head(b)) THEN Ord(Head(a)) < Ord(Head(b))
    ELSE StrLess(Tail(a), Tail(b))

\* Mutant of Sorted: the listing sorted downwards (reverse=True).
RECURSIVE SortedDescending(_)
SortedDescending(S) ==
    IF S = {} THEN <<>>
    ELSE LET m == CHOOSE x \in S : \A y \in S \ {x} : StrLess(y, x)
         IN  <<m>> \o SortedDescending(S \ {m})

\* sorted(...) of a listing (os.listdir returns each name once).
RECURSIVE Sorted(_)
Sorted(S) ==
    IF S = {} THEN <<>>
    ELSE LET m == CHOOSE x \in S : \A y \in S \ {x} : StrLess(x, y)
         IN  <<m>> \o Sorted(S \ {m})

\* str.endswith
EndsWith(s, suffix) ==
    /\ Len(s) >= Len(suffix)
    /\ SubSeq(s, Len(s) - Len(suffix) + 1, Len(s)) = suffix

\* op.join(envdir, name) for a relative name
Join(dir, name) ==
    IF dir = <<>> \/ dir[Len(dir)] = "/" THEN dir \o name
    ELSE dir \o <<"/">> \o name

-----------------------------------------------------------------------------
(* File modes (Python's stat module).                                      *)

S_IFMT  == \o170000
S_IFDIR == \o040000
S_IXUSR == \o100
S_IXGRP == \o010
S_IXOTH == \o001
PermMask == \o7777

\* a & b on naturals
RECURSIVE BitAnd(_, _)
BitAnd(a, b) ==
    IF a = 0 \/ b = 0 THEN 0
    ELSE (a % 2) * (b % 2) + 2 * BitAnd(a \div 2, b \div 2)

\* a | b on naturals
RECURSIVE BitOr(_, _)
BitOr(a, b) ==
    IF a = 0 THEN b
    ELSE IF b = 0 THEN a
    ELSE (IF a % 2 = 1 \/ b % 2 = 1 THEN 1 ELSE 0)
         + 2 * BitOr(a \div 2, b \div 2)

\* stat.S_ISDIR(mode)
S_ISDIR(mode) == BitAnd(mode, S_IFMT) = S_IFDIR

\* stat.S_IMODE(mode)
S_IMODE(mode) == BitAnd(mode, PermMask)

\* Mutant of directory: the execute bits are looked at first, so that a
\* directory with one set is taken for a program.
directory_after_executable(st_mode) ==
    S_ISDIR(st_mode) /\ BitAnd(BitAnd(st_mode, PermMask), \o111) = 0

\* directory(item): True iff item is a stat_result representing a directory.
directory(st_mode) == S_ISDIR(st_mode)

\* The mask of executable(item): S_IXUSR | S_IXGRP | S_IXOTH.
ExecMask == BitOr(S_IXUSR, BitOr(S_IXGRP, S_IXOTH))

\* Mutant of executable: only the owner's execute bit is looked at.
executable_owner_only(st_mode) == BitAnd(S_IMODE(st_mode), S_IXUSR) # 0

\* executable(item): any +x bit is set (directories are not told apart here).
executable(st_mode) == BitAnd(S_IMODE(st_mode), ExecMask) # 0

-----------------------------------------------------------------------------
(* The renderers.                                                          *)

\* The characters shlex.quote leaves alone: [\w@%+=:,./-] under re.ASCII.
SafeChars == Letters \cup Digits \cup {"_", "@", "%", "+", "=", ":", ",", ".", "/", "-"}

\* shlex._find_unsafe(s) is None
AllSafe(s) == \A i \in 1..Len(s) : s[i] \in SafeChars

\* Mutant of ReplaceQuotes: a single quote is escaped with a backslash, which
\* a shell does not honour inside single quotes.
RECURSIVE ReplaceQuotesBackslash(_)
ReplaceQuotesBackslash(s) ==
    IF s = <<>> THEN <<>>
    ELSE (IF Head(s) = SQ THEN <<BS, SQ>> ELSE <<Head(s)>>)
         \o ReplaceQuotesBackslash(Tail(s))

\* s.replace("'", "'\"'\"'")
RECURSIVE ReplaceQuotes(_)
ReplaceQuotes(s) ==
    IF s = <<>> THEN <<>>
    ELSE (IF Head(s) = SQ THEN <<SQ, DQ, SQ, DQ, SQ>> ELSE <<Head(s)>>)
         \o ReplaceQuotes(Tail(s))

\* shlex.quote(s)
quote(s) ==
    IF s = <<>> THEN <<SQ, SQ>>
    ELSE IF AllSafe(s) THEN s
    ELSE <<SQ>> \o ReplaceQuotes(s) \o <<SQ>>

\* The text "; export " of export_env_script's f-string.
ExportWord == <<";", " ", "e", "x", "p", "o", "r", "t", " ">>

\* Mutant of export_env_script: the one-step form f"export {qname}={qcontent}".
export_one_step(name, content) ==
    <<"e", "x", "p", "o", "r", "t", " ">> \o quote(name) \o <<"=">> \o quote(content)

\* export_env_script(name, content): f"{qname}={qcontent}; export {qname}"
export_env_script(name, content) ==
    quote(name) \o <<"=">> \o quote(content) \o ExportWord \o quote(name)

\* no_export_env_script(name, content): f"{qname}={qcontent}"
no_export_env_script(name, content) ==
    quote(name) \o <<"=">> \o quote(content)

\* detect_env_script(path, rc, default)
detect_env_script(path, rc, default) ==
    IF EndsWith(path, <<"r", "c">>) THEN rc ELSE default

\* Mutant of SelectEnvScript: without a flag the export form is taken, as
\* the option's help text says, and DIR is not looked at.
SelectDefaultExport(exp, dir) ==
    IF exp = "False" THEN "no_export_env_script" ELSE "export_env_script"

\* Lines 48-55 of main: the renderer for the whole run.
SelectEnvScript(exp, dir) ==
    IF exp = "None"
    THEN detect_env_script(dir, "no_export_env_script", "export_env_script")
    ELSE IF exp = "True" THEN "export_env_script"
    ELSE "no_export_env_script"

\* env_script(name, content) at line 58, env_script being a function value.
Apply(f, name, content) ==
    IF f = "export_env_script" THEN export_env_script(name, content)
    ELSE no_export_env_script(name, content)

\* Mutant of StripNewline: content.rstrip("\n"), every trailing newline.
RECURSIVE StripAllNewlines(_)
StripAllNewlines(content) ==
    IF EndsWith(content, <<NL>>)
    THEN StripAllNewlines(SubSeq(content, 1, Len(content) - 1))
    ELSE content

\* Lines 111-112 of walk_entries: at most one trailing newline is dropped.
StripNewline(content) ==
    IF EndsWith(content, <<NL>>) THEN SubSeq(content, 1, Len(content) - 1)
    ELSE content

-----------------------------------------------------------------------------
(* The inputs of a run: the command line and what the file system and the  *)
(* started programs answer.                                                *)

\* The names an entry of the directory may have.
NamePool == {<<"A">>, <<"A", "r", "c">>, <<"B">>}

\* The DIR arguments.
EnvDirs == {<<"d">>, <<"d", "r", "c">>}

\* The --export/--no-export option: absent (None), --export, --no-export.
ExportFlags == {"None", "True", "False"}

\* st_mode values: two directories (one with, one without x bits), a plain
\* file, and a file for each single execute bit.
Modes == {\o040755, \o040644, \o100644, \o100744, \o100654, \o100645}

\* What os.stat(path) answers: a stat_result or an OSError.
StatAnswers ==
    {[ok |-> TRUE, st_mode |-> m, reason |-> "none"] : m \in Modes}
    \cup {[ok |-> FALSE, st_mode |-> 0, reason |-> "FileNotFoundError"]}

\* The texts a program prints or a file holds.
Contents == {<<>>, <<"a">>, <<"a", NL>>, <<"a", NL, NL>>, <<"a", NL, " ">>}

\* What starting the program answers (sp.run raises OSError if it cannot).
StartAnswers == {"started", "PermissionError"}

\* What a started program leaves when it exits: its status and its output.
ExitAnswers ==
    {[returncode |-> 0, decodable |-> TRUE, text |-> t] : t \in Contents}
    \cup {[returncode |-> 0, decodable |-> FALSE, text |-> <<>>],
          [returncode |-> 1, decodable |-> TRUE, text |-> <<>>]}

\* What open(path).read() answers: the text or an exception.
ReadAnswers ==
    {[ok |-> TRUE, text |-> t, reason |-> "none"] : t \in Contents}
    \cup {[ok |-> FALSE, text |-> <<>>, reason |-> "PermissionError"]}

\* No resolver was called, or it raised before answering.
NoText == <<"?">>

-----------------------------------------------------------------------------
(* The run.                                                                *)

Init ==
    /\ export \in ExportFlags
    /\ envdir \in EnvDirs
    /\ listable \in BOOLEAN
    /\ \E L \in SUBSET NamePool :
          /\ Cardinality(L) <= MaxEntries
          /\ fs \in [L -> StatAnswers]
    /\ env_script = "unset"
    /\ names = <<>>
    /\ idx = 1
    /\ pc = "main"
    /\ stdout = <<>>
    /\ stderr = <<>>
    /\ yielded = <<>>
    /\ visited = <<>>
    /\ exit = <<>>
    /\ v = <<>>
    /\ token = <<>>
    /\ script = <<>>
    /\ qpc = "off"

\* The entry the for loop of walk_entries is at.
CurName == names[idx]
CurPath == Join(envdir, CurName)

\* Mutant of warn_on_skipped: nothing is echoed.
warn_nothing(err, path, reason) == err

\* warn_on_skipped(path, reason): one line on stderr naming both.
warn_on_skipped(err, path, reason) ==
    Append(err, [path |-> path, reason |-> reason])

\* The for loop of walk_entries takes the next name.
NextIdx(i) == i + 1

\* One finished iteration, with what the environment answered in it.
Visit(op, reason, text) ==
    visited' = Append(visited, [name |-> CurName, stat |-> fs[CurName],
                                op |-> op, reason |-> reason, text |-> text])

\* Lines 108-110: the except clause of walk_entries.
Skip(op, reason) ==
    /\ stderr' = warn_on_skipped(stderr, CurPath, reason)
    /\ idx' = NextIdx(idx)
    /\ pc' = "loop"
    /\ Visit(op, reason, NoText)
    /\ UNCHANGED <<stdout, yielded>>

\* Lines 111-113 and 58-59: strip, yield, render, echo.
Yield(op, text) ==
    LET content == StripNewline(text)
    IN  /\ yielded' = Append(yielded, [name |-> CurName, content |-> content])
        /\ stdout' = Append(stdout, Apply(env_script, CurName, content))
        /\ idx' = NextIdx(idx)
        /\ pc' = "loop"
        /\ Visit(op, "none", text)
        /\ UNCHANGED stderr

\* Lines 48-55 of main.
SelectScript ==
    /\ pc = "main"
    /\ env_script' = SelectEnvScript(export, envdir)
    /\ pc' = "listdir"
    /\ UNCHANGED <<export, envdir, listable, fs, names, idx, stdout, stderr,
                   yielded, visited, exit>>
    /\ UNCHANGED quoteVars

\* Line 97: sorted(os.listdir(envdir)) succeeds.
ListDir ==
    /\ pc = "listdir"
    /\ listable
    /\ names' = Sorted(DOMAIN fs)
    /\ idx' = 1
    /\ pc' = "loop"
    /\ UNCHANGED <<export, envdir, listable, fs, env_script, stdout, stderr,
                   yielded, visited, exit>>
    /\ UNCHANGED quoteVars

\* Mutant of ListDirFails: the error is swallowed and the directory taken
\* for an empty one.
ListDirFailsAsEmpty ==
    /\ pc = "listdir"
    /\ ~listable
    /\ pc' = "done"
    /\ exit' = <<0>>
    /\ UNCHANGED <<export, envdir, listable, fs, env_script, names, idx,
                   stdout, stderr, yielded, visited>>
    /\ UNCHANGED quoteVars

\* Line 97: os.listdir(envdir) raises; nothing catches it and the
\* interpreter exits with status 1.
ListDirFails ==
    /\ pc = "listdir"
    /\ ~listable
    /\ pc' = "aborted"
    /\ exit' = <<1>>
    /\ UNCHANGED <<export, envdir, listable, fs, env_script, names, idx,
                   stdout, stderr, yielded, visited>>
    /\ UNCHANGED quoteVars

InLoop == pc = "loop" /\ idx <= Len(names)

Frame == /\ UNCHANGED <<export, envdir, listable, fs, env_script, names, exit>>
         /\ UNCHANGED quoteVars

\* Line 100: os.stat(path) raises.
StatFails ==
    /\ InLoop
    /\ ~fs[CurName].ok
    /\ Skip("none", fs[CurName].reason)
    /\ Frame

\* Lines 101-102: a directory is passed over.
SkipDirectory ==
    /\ InLoop
    /\ fs[CurName].ok
    /\ directory(fs[CurName].st_mode)
    /\ idx' = NextIdx(idx)
    /\ Visit("none", "none", NoText)
    /\ UNCHANGED <<pc, stdout, stderr, yielded>>
    /\ Frame

\* Lines 104-105 and 134: the entry is executable; sp.run starts it, or
\* raises at once if it cannot be started.
StartProgram ==
    /\ InLoop
    /\ fs[CurName].ok
    /\ ~directory(fs[CurName].st_mode)
    /\ executable(fs[CurName].st_mode)
    /\ \E a \in StartAnswers :
          IF a = "started"
          THEN /\ pc' = "running"
               /\ UNCHANGED <<idx, stdout, stderr, yielded, visited>>
          ELSE Skip("run", a)
    /\ Frame

\* Lines 134-139: the program exits; sp.run (check=True) returns its output
\* or raises CalledProcessError, and decoding may raise.
ProgramExits ==
    /\ pc = "running"
    /\ \E a \in ExitAnswers :
          IF a.returncode # 0 THEN Skip("run", "CalledProcessError")
          ELSE IF ~a.decodable THEN Skip("run", "UnicodeDecodeError")
          ELSE Yield("run", a.text)
    /\ Frame

\* Lines 106-107 and 144-145: the entry is read as a file.
ReadFile ==
    /\ InLoop
    /\ fs[CurName].ok
    /\ ~directory(fs[CurName].st_mode)
    /\ ~executable(fs[CurName].st_mode)
    /\ \E a \in ReadAnswers :
          IF a.ok THEN Yield("read", a.text) ELSE Skip("read", a.reason)
    /\ Frame

\* Mutant of Finish: the loop ends one entry early.
FinishOneEarly ==
    /\ pc = "loop"
    /\ idx >= Len(names)
    /\ pc' = "done"
    /\ exit' = <<0>>
    /\ UNCHANGED <<export, envdir, listable, fs, env_script, names, idx,
                   stdout, stderr, yielded, visited>>
    /\ UNCHANGED quoteVars

\* The for loops end and main returns: exit status 0.
Finish ==
    /\ pc = "loop"
    /\ idx > Len(names)
    /\ pc' = "done"
    /\ exit' = <<0>>
    /\ UNCHANGED <<export, envdir, listable, fs, env_script, names, idx,
                   stdout, stderr, yielded, visited>>
    /\ UNCHANGED quoteVars

Next ==
    \/ SelectScript
    \/ ListDir
    \/ ListDirFails
    \/ StatFails
    \/ SkipDirectory
    \/ StartProgram
    \/ ProgramExits
    \/ ReadFile
    \/ Finish

Spec == Init /\ [][Next]_vars

\* The steps the interpreter takes by itself: it runs main to its end.
DriverStep ==
    \/ SelectScript
    \/ ListDir
    \/ ListDirFails
    \/ StatFails
    \/ SkipDirectory
    \/ StartProgram
    \/ ReadFile
    \/ Finish

\* The run with its scheduling: the interpreter keeps running main
\* (WF of DriverStep), and every started program eventually exits (WF of
\* ProgramExits; without it a program may run for ever, which is a behaviour
\* of Spec).
\* The rendering does not steer the walk, so the command line is the
\* default one here.
InitFair == Init /\ export = "None" /\ envdir = <<"d">>

FairSpec ==
    /\ InitFair
    /\ [][Next]_vars
    /\ WF_vars(DriverStep)
    /\ WF_vars(ProgramExits)

-----------------------------------------------------------------------------
(* How a POSIX shell reads one word (XCU 2.2 Quoting), used to state what  *)
(* a quoted token means.  The result is the field the word expands to, or  *)
(* NotAWord when the text is not one literal word: it is empty, it holds   *)
(* an unquoted separator, operator, expansion or pattern character, or a   *)
(* quote is left open.  The backquote is not among the characters of the   *)
(* model.                                                                  *)

NotAWord == [ok |-> FALSE, word |-> <<>>]

\* Characters that are not literal when unquoted.
ShellSpecial ==
    {"|", "&", ";", "<", ">", "(", ")", "$", " ", "\t", NL,
     "*", "?", "[", "#", "~", "!", "{", "}"}

\* Characters a backslash escapes inside double quotes.
DQEscapable == {"$", DQ, BS, NL}

RECURSIVE ShellRead(_, _, _, _)
ShellRead(t, i, mode, acc) ==
    IF i > Len(t)
    THEN IF mode = "plain" THEN [ok |-> TRUE, word |-> acc] ELSE NotAWord
    ELSE LET c == t[i] IN
      CASE mode = "single" ->
             IF c = SQ THEN ShellRead(t, i + 1, "plain", acc)
             ELSE ShellRead(t, i + 1, "single", Append(acc, c))
        [] mode = "double" ->
             IF c = DQ THEN ShellRead(t, i + 1, "plain", acc)
             ELSE IF c = "$" THEN NotAWord
             ELSE IF c = BS
             THEN IF i = Len(t) THEN NotAWord
                  ELSE IF t[i + 1] = NL THEN ShellRead(t, i + 2, "double", acc)
                  ELSE IF t[i + 1] \in DQEscapable
                  THEN ShellRead(t, i + 2, "double", Append(acc, t[i + 1]))
                  ELSE ShellRead(t, i + 1, "double", Append(acc, c))
             ELSE ShellRead(t, i + 1, "double", Append(acc, c))
        [] OTHER ->
             IF c = SQ THEN ShellRead(t, i + 1, "single", acc)
             ELSE IF c = DQ THEN ShellRead(t, i + 1, "double", acc)
             ELSE IF c = BS
             THEN IF i = Len(t) THEN NotAWord
                  ELSE IF t[i + 1] = NL THEN ShellRead(t, i + 2, "plain", acc)
                  ELSE ShellRead(t, i + 2, "plain", Append(acc, t[i + 1]))
             ELSE IF c \in ShellSpecial THEN NotAWord
             ELSE ShellRead(t, i + 1, "plain", Append(acc, c))

ShellEval(t) == IF t = <<>> THEN NotAWord ELSE ShellRead(t, 1, "plain", <<>>)

-----------------------------------------------------------------------------
(* The renderers on their own: a text is quoted and rendered, as the name  *)
(* of a variable or as its value.                                          *)

\* The characters of the texts tried.
QuoteAlphabet == {"a", SQ, DQ, " ", NL, "$", BS}

Texts == UNION {[1..k -> QuoteAlphabet] : k \in 0..MaxLen}

\* The other argument of the renderer.
OtherName == <<"N">>
OtherContent == <<"x">>

InitQuote ==
    /\ export = "None"
    /\ envdir = <<"d">>
    /\ listable = FALSE
    /\ fs = <<>>
    /\ env_script = "unset"
    /\ names = <<>>
    /\ idx = 1
    /\ pc = "off"
    /\ stdout = <<>>
    /\ stderr = <<>>
    /\ yielded = <<>>
    /\ visited = <<>>
    /\ exit = <<>>
    /\ v \in Texts
    /\ token = <<>>
    /\ script = <<>>
    /\ qpc = "text"

\* qname = shlex.quote(name) / qcontent = shlex.quote(content)
QuoteText ==
    /\ qpc = "text"
    /\ token' = quote(v)
    /\ qpc' = "quoted"
    /\ UNCHANGED <<v, script>>
    /\ UNCHANGED driverVars

\* export_env_script with the text as the name, or as the content.
RenderExport ==
    /\ qpc = "quoted"
    /\ \/ /\ script' = export_env_script(v, OtherContent)
          /\ qpc' = "export-name"
       \/ /\ script' = export_env_script(OtherName, v)
          /\ qpc' = "export-content"
    /\ UNCHANGED <<v, token>>
    /\ UNCHANGED driverVars

\* no_export_env_script with the text as the name, or as the content.
RenderNoExport ==
    /\ qpc = "quoted"
    /\ \/ /\ script' = no_export_env_script(v, OtherContent)
          /\ qpc' = "plain-name"
       \/ /\ script' = no_export_env_script(OtherName, v)
          /\ qpc' = "plain-content"
    /\ UNCHANGED <<v, token>>
    /\ UNCHANGED driverVars

NextQuote == QuoteText \/ RenderExport \/ RenderNoExport

SpecQuote == InitQuote /\ [][NextQuote]_vars

-----------------------------------------------------------------------------
(* Reading the outputs back, for the properties below.                     *)

\* The mode's file type is "directory" (octal 04 in the type field).
IsDirMode(m) == (m \div 4096) % 16 = 4

\* One of the three execute bits (octal 100, 010, 001) is set.
HasExecBit(m) == (m \div 64) % 2 = 1 \/ (m \div 8) % 2 = 1 \/ m % 2 = 1

\* The finished iterations in which the resolver answered with a text.
Resolved == SelectSeq(visited, LAMBDA r : r.op # "none" /\ r.reason = "none")

\* The finished iterations that raised.
Raised == SelectSeq(visited, LAMBDA r : r.reason # "none")

\* The names of a sequence of iterations.
NamesOf(rs) == [j \in 1..Len(rs) |-> rs[j].name]

\* The text of a statement before its first "=".
StatementName(stmt) ==
    IF \E k \in 1..Len(stmt) : stmt[k] = "="
    THEN SubSeq(stmt, 1, (CHOOSE k \in 1..Len(stmt) :
                            /\ stmt[k] = "="
                            /\ \A h \in 1..(k - 1) : stmt[h] # "=") - 1)
    ELSE stmt

\* The statement ends with "; export NAME" for its own name.
HasExport(stmt) == EndsWith(stmt, ExportWord \o StatementName(stmt))

\* The value token of a statement: what follows "NAME=", less the export.
ValueToken(stmt) ==
    LET n == StatementName(stmt)
        rest == SubSeq(stmt, Len(n) + 2, Len(stmt))
    IN  IF HasExport(stmt)
        THEN SubSeq(rest, 1, Len(rest) - Len(ExportWord) - Len(n))
        ELSE rest

\* The value a shell gets from a statement.
ValueOf(stmt) == ShellEval(ValueToken(stmt))

\* str.startswith, for reading a statement.
StartsWith(s, prefix) ==
    /\ Len(s) >= Len(prefix)
    /\ SubSeq(s, 1, Len(prefix)) = prefix

\* The listing has been made and walked so far.
Listed == pc \in {"loop", "running", "done"}

-----------------------------------------------------------------------------
(* The properties.                                                         *)

\* C1: once the directory is listed, the statements on the primary output
\* are, in order, one for each entry walked so far that is not a directory
\* and whose stat, run or read did not fail: their names are strictly
\* ascending (so no entry has two statements), and their number is the
\* number of non-directory entries less the number of entries that failed.
\* An entry whose stat failed is not known to be a directory and counts as a
\* non-directory entry that failed.
C1_OutputMatchesEntries ==
    Listed =>
      LET walked == {visited[j].name : j \in 1..Len(visited)}
          nondir == {n \in walked : ~(fs[n].ok /\ IsDirMode(fs[n].st_mode))}
          failed == {Raised[j].name : j \in 1..Len(Raised)}
          outNames == [j \in 1..Len(stdout) |-> StatementName(stdout[j])]
      IN  /\ {outNames[j] : j \in 1..Len(stdout)} = nondir \ failed
          /\ \A j, k \in 1..Len(stdout) :
                j < k => StrLess(outNames[j], outNames[k])
          /\ Len(stdout) = Cardinality(nondir) - Cardinality(failed)
          /\ pc = "done" => walked = DOMAIN fs

\* C1 witness: a finished run over two entries, one rendered and one failed.
C1_Witness ==
    /\ pc = "done"
    /\ Len(names) = 2
    /\ Len(stdout) = 1
    /\ Len(stderr) = 1

C3_OneTrailingNewline ==
    /\ Len(stdout) = Len(Resolved)
    /\ \A j \in 1..Len(stdout) :
          LET text == Resolved[j].text
              value == ValueOf(stdout[j])
          IN  /\ value.ok
              /\ IF text # <<>> /\ text[Len(text)] = NL
                 THEN value.word \o <<NL>> = text
                 ELSE value.word = text

\* C3 witness: a program printed "a\n\n" and a file held "a\n", and both
\* were rendered.
C3_Witness ==
    /\ pc = "done"
    /\ \E j, k \in 1..Len(Resolved) :
          /\ Resolved[j].op = "run"
          /\ Resolved[j].text = <<"a", NL, NL>>
          /\ Resolved[k].op = "read"
          /\ Resolved[k].text = <<"a", NL>>

\* C4: a failing entry (stat, start, exit status, decoding, read) gives no
\* statement and exactly one warning with its path and the reason, the
\* warnings are in the order of the failing entries, and the run goes on:
\* the entries are walked in listing order up to the last, each statement
\* is that of its own entry, and the run ends with every entry walked and
\* status 0.
C4_FailuresBecomeWarnings ==
    /\ stderr = [j \in 1..Len(Raised) |->
                   [path |-> envdir \o <<"/">> \o Raised[j].name,
                    reason |-> Raised[j].reason]]
    /\ \A j \in 1..Len(Raised) : \A k \in 1..Len(stdout) :
          StatementName(stdout[k]) # Raised[j].name
    /\ NamesOf(visited) = SubSeq(names, 1, Len(visited))
    /\ Len(stdout) = Len(Resolved)
    /\ \A k \in 1..Len(stdout) : StatementName(stdout[k]) = Resolved[k].name
    /\ Raised # <<>> => pc \in {"loop", "running", "done"}
    /\ pc = "done" => Len(visited) = Len(names) /\ exit = <<0>>

\* C4 witness: the first entry failed, the second was rendered, the run
\* ended.
C4_Witness ==
    /\ pc = "done"
    /\ Len(visited) = 2
    /\ visited[1].reason # "none"
    /\ visited[2].reason = "none"
    /\ Len(stdout) = 1
    /\ Len(stderr) = 1

\* C5: an entry whose stat answers with a directory mode, whatever its
\* permission bits, is neither run nor read and gives no statement and no
\* warning.
C5_DirectoriesAreSilent ==
    \A j \in 1..Len(visited) :
       LET r == visited[j] IN
       (r.stat.ok /\ IsDirMode(r.stat.st_mode)) =>
          /\ r.op = "none"
          /\ r.reason = "none"
          /\ \A k \in 1..Len(stdout) : StatementName(stdout[k]) # r.name
          /\ \A k \in 1..Len(stderr) : stderr[k].path # Join(envdir, r.name)

\* C5 witness: a directory with execute bits was walked and the run ended
\* with nothing written.
C5_Witness ==
    /\ pc = "done"
    /\ \E j \in 1..Len(visited) :
          /\ visited[j].stat.ok
          /\ IsDirMode(visited[j].stat.st_mode)
          /\ HasExecBit(visited[j].stat.st_mode)
    /\ Len(visited) = 1
    /\ stdout = <<>>
    /\ stderr = <<>>

\* C6: if the directory cannot be listed, the run ends with a non-zero
\* status, no statement is written, no entry is walked and no warning is
\* given.
C6_UnlistableAborts ==
    ~listable =>
      /\ pc \in {"main", "listdir", "aborted"}
      /\ pc = "aborted" => (exit # <<>> /\ exit # <<0>>)
      /\ stdout = <<>>
      /\ stderr = <<>>
      /\ visited = <<>>
      /\ yielded = <<>>

\* C6 witness: the run aborted on a directory that holds entries.
C6_Witness ==
    /\ pc = "aborted"
    /\ DOMAIN fs # {}
    /\ exit = <<1>>

\* C8: with the mode given, every statement has that form whatever the
\* entry's name.  --export: the statement is the assignment NAME=VALUE, then
\* "; export " and the same quoted name, and does not begin with "export".
\* --no-export: the statement is the assignment alone.  The name and the
\* value are quoted separately: each token read alone gives the name and
\* the stripped value.
C8_ExplicitMode ==
    export # "None" =>
      \A j \in 1..Len(stdout) :
         LET stmt == stdout[j]
             n == Resolved[j].name
             qn == SubSeq(stmt, 1, Len(n))
             assignment == qn \o <<"=">> \o ValueToken(stmt)
         IN  /\ ShellEval(qn) = [ok |-> TRUE, word |-> n]
             /\ ValueOf(stmt).ok
             /\ ~StartsWith(stmt, <<"e", "x", "p", "o", "r", "t", " ">>)
             /\ export = "True" => stmt = assignment \o ExportWord \o qn
             /\ export = "False" => stmt = assignment

\* C8 witness: --export, on a DIR ending with "rc", rendered an entry named
\* A and an entry named Arc.
C8_Witness ==
    /\ pc = "done"
    /\ Len(stdout) = 2
    /\ export = "True"
    /\ StatementName(stdout[1]) = <<"A">>
    /\ StatementName(stdout[2]) = <<"A", "r", "c">>
    /\ EndsWith(envdir, <<"r", "c">>)

\* C9: for an entry that is not a directory the execute bits alone decide
\* the source of the value: with any of the three set the entry is run and
\* not read, with none set it is read and not run; and the program waited
\* for is an entry with an execute bit.
C9_ExecuteBitsDecide ==
    /\ \A j \in 1..Len(visited) :
          LET r == visited[j] IN
          (r.stat.ok /\ ~IsDirMode(r.stat.st_mode)) =>
             IF HasExecBit(r.stat.st_mode) THEN r.op = "run" ELSE r.op = "read"
    /\ pc = "running" =>
          /\ fs[names[idx]].ok
          /\ ~IsDirMode(fs[names[idx]].st_mode)
          /\ HasExecBit(fs[names[idx]].st_mode)

\* C9 witness: an entry with only the group execute bit was run, and an
\* entry with no execute bit was read.
C9_Witness ==
    /\ pc = "done"
    /\ \E j, k \in 1..Len(visited) :
          /\ visited[j].stat.st_mode = \o100654
          /\ visited[j].op = "run"
          /\ visited[j].reason = "none"
          /\ visited[k].stat.st_mode = \o100644
          /\ visited[k].op = "read"

\* C7: for every text v, the empty one and those with single quotes, double
\* quotes, blanks, "$", backslashes and newlines included, the token the
\* renderers put in the statement for v, as the name or as the value, is
\* read by a shell as one word that is exactly v; the empty text is quoted
\* as ''.
C7_QuoteRoundTrip ==
    LET same == [ok |-> TRUE, word |-> v]
        tail == <<"=">> \o OtherContent
        tlen == IF qpc = "export-name"
                THEN (Len(script) - Len(tail) - Len(ExportWord)) \div 2
                ELSE Len(script) - Len(tail)
    IN  /\ qpc # "text" => ShellEval(token) = same
        /\ (qpc # "text" /\ v = <<>>) => token = <<SQ, SQ>>
        /\ qpc \in {"export-content", "plain-content"} =>
              /\ ValueToken(script) = token
              /\ ValueOf(script) = same
        /\ qpc = "plain-name" =>
              /\ script = SubSeq(script, 1, tlen) \o tail
              /\ ShellEval(SubSeq(script, 1, tlen)) = same
        /\ qpc = "export-name" =>
              /\ script = SubSeq(script, 1, tlen) \o tail \o ExportWord
                          \o SubSeq(script, 1, tlen)
              /\ ShellEval(SubSeq(script, 1, tlen)) = same

\* C7 witness: a text with a letter, a single quote and a newline was
\* rendered as the value of an export statement.
C7_Witness ==
    /\ qpc = "export-content"
    /\ v = <<"a", SQ, NL>>

\* C10: if the listing succeeds and every started program exits, the run
\* ends with status 0 having walked every listed entry exactly once, however
\* many were skipped; while a program has not exited the driver takes no
\* step, and the only step from there is that program's exit, which ends
\* the iteration of that entry.
C10_Completion ==
    /\ listable ~> (pc = "done" /\ exit = <<0>>)
    /\ [](pc = "done" =>
            /\ NamesOf(visited) = names
            /\ \A n \in DOMAIN fs :
                  Cardinality({j \in 1..Len(visited) : visited[j].name = n}) = 1)
    /\ [](pc = "running" => ~ENABLED DriverStep)
    /\ [][pc = "running" =>
            /\ pc' = "loop"
            /\ Len(visited') = Len(visited) + 1
            /\ visited'[Len(visited')].name = names[idx]
            /\ visited'[Len(visited')].op = "run"]_vars

\* C10 witness: a run that started a program and skipped an entry has ended
\* with status 0.
C10_Witness ==
    /\ pc = "done"
    /\ exit = <<0>>
    /\ Len(visited) = 2
    /\ \E j \in 1..Len(visited) : visited[j].op = "run" /\ visited[j].reason = "none"
    /\ Len(stderr) = 1

====
